---- MODULE Spec2Model ----
(***************************************************************************)
(* A model of streamlit_app.py: the BG/NBD customer-lifetime-value app.    *)
(* One behaviour of Spec is one run of main() on the file the session      *)
(* holds in the uploader widget.  The pandas / lifetimes / zipfile calls   *)
(* are modelled by what they return for the arguments the script passes.   *)
(***************************************************************************)
EXTENDS Integers, Sequences, FiniteSets, TLC

VARIABLES uploaded_file, pc, sales_data, display, summary, bgf, chart,
          archive, exception, stages, reloaded

vars == <<uploaded_file, pc, sales_data, display, summary, bgf, chart,
          archive, exception, stages, reloaded>>

-----------------------------------------------------------------------------
(* Bounds of the model *)

MaxRows == 3
MaxDate == 2
MaxCoef == 2
CoefStep == 55
HeatLow == 5
HeatHighFrom == 48
HeatHigh == 52

-----------------------------------------------------------------------------
(* Optional values: Python's None is the empty tuple, a value is a 1-tuple *)

None == <<>>
Some(x) == <<x>>
Val(o) == o[1]

Max(S) == CHOOSE x \in S : \A y \in S : y <= x
Min(S) == CHOOSE x \in S : \A y \in S : x <= y

-----------------------------------------------------------------------------
(* The uploaded CSV *)

NA == "NaN"
NaT == -1
Customers == {"C1", "C2"}
CustomerCells == Customers \cup {NA}

IsoDate(d) == [kind |-> "iso", day |-> d]
NotADate == [kind |-> "text", day |-> 0]
EmptyDate == [kind |-> "nan", day |-> 0]
DateCells == {IsoDate(d) : d \in 0..MaxDate} \cup {NotADate, EmptyDate}

required_columns == <<"customer_id", "date">>

RowsUpTo(n, S) == UNION {[1..k -> S] : k \in 0..n}

CsvFile(cols, rows) == [readable |-> TRUE, columns |-> cols, rows |-> rows]
UnreadableFile == [readable |-> FALSE, columns |-> {}, rows |-> <<>>]

FullFiles ==
    {CsvFile({"customer_id", "date"}, rs) :
        rs \in RowsUpTo(MaxRows, [customer_id : CustomerCells, date : DateCells])}
NoDateFiles ==
    {CsvFile({"customer_id"}, rs) :
        rs \in RowsUpTo(MaxRows, [customer_id : CustomerCells, date : {EmptyDate}])}
NoCustomerFiles ==
    {CsvFile({"date"}, rs) :
        rs \in RowsUpTo(MaxRows, [customer_id : {NA}, date : DateCells])}
NoColumnFiles == {CsvFile({}, <<>>), CsvFile({"amount"}, <<>>)}

\* [(C1, 2023-01-01), (C1, 2023-02-01), (C2, 2023-01-15)], in days from 2023-01-01
ScenarioFile ==
    CsvFile({"customer_id", "date"},
            <<[customer_id |-> "C1", date |-> IsoDate(0)],
              [customer_id |-> "C1", date |-> IsoDate(31)],
              [customer_id |-> "C2", date |-> IsoDate(14)]>>)

\* A customer with f + 1 purchase days, the last on day t (f <= t)
HeatFile(f, t) ==
    CsvFile({"customer_id", "date"},
            [k \in 1..(f + 1) |->
                [customer_id |-> "C1", date |-> IsoDate(IF k <= f THEN k - 1 ELSE t)]])

Files == FullFiles \cup NoDateFiles \cup NoCustomerFiles \cup NoColumnFiles
            \cup {UnreadableFile, ScenarioFile}

-----------------------------------------------------------------------------
(* Displayed elements *)

Elem(kind, text) == [kind |-> kind, text |-> text, names |-> <<>>]
ErrorElem(text, names) == [kind |-> "error", text |-> text, names |-> names]


-----------------------------------------------------------------------------
(* load_and_preprocess_data *)

HasRequiredColumnsAny(columns) ==
    \E k \in 1..Len(required_columns) : required_columns[k] \in columns

\* all(col in sales_data.columns for col in required_columns)
HasRequiredColumns(columns) ==
    \A k \in 1..Len(required_columns) : required_columns[k] \in columns

\* pd.to_datetime(..., errors='coerce') on one cell
to_datetime(cell) == IF cell.kind = "iso" THEN cell.day ELSE NaT

ParseDates(rows) ==
    [k \in 1..Len(rows) |->
        [customer_id |-> rows[k].customer_id, date |-> to_datetime(rows[k].date)]]

AllNull(rows) == rows # <<>> /\ \A k \in 1..Len(rows) : rows[k].date = NaT

\* sales_data['date'].isnull().any()
AnyNull(rows) == \E k \in 1..Len(rows) : rows[k].date = NaT

IsComplete(row) == row.customer_id # NA /\ row.date # NaT

\* sales_data.dropna(subset=['customer_id', 'date'])
dropna(rows) == SelectSeq(rows, IsComplete)

Failure(text, names) ==
    [table |-> None, errors |-> <<ErrorElem(text, names)>>]

\* The result of the call: the returned table (or None) and what st.error showed
load_and_preprocess_data(file) ==
    IF ~file.readable
    THEN Failure("Error loading data: No columns to parse from file", <<>>)
    ELSE IF ~HasRequiredColumns(file.columns)
    THEN Failure("Error loading data: The dataset must contain the following columns: ",
                 required_columns)
    ELSE IF "date" \notin file.columns
    THEN Failure("Error loading data: 'date'", <<>>)
    ELSE LET parsed == ParseDates(file.rows) IN
         IF AnyNull(parsed)
         THEN Failure("Error loading data: Some date values couldn't be parsed. Please ensure all dates are in a valid format.",
                      <<>>)
         ELSE [table |-> Some(dropna(parsed)), errors |-> <<>>]

-----------------------------------------------------------------------------
(* Summarization: lifetimes.utils.summary_data_from_transaction_data, as    *)
(* main calls it: customer_id_col 'customer_id', datetime_col 'date',       *)
(* freq 'D', observation_period_end the maximum date of the table.  Dates   *)
(* are whole days, so the difference of two dates is a number of days.      *)

Dates(rows) == {rows[k].date : k \in 1..Len(rows)}

observation_period_end_min(rows) == IF rows = <<>> THEN NaT ELSE Min(Dates(rows))

\* sales_data['date'].max()
observation_period_end(rows) == IF rows = <<>> THEN NaT ELSE Max(Dates(rows))

\* The customers in order of first appearance (groupby(..., sort=False))
RECURSIVE FirstAppearance(_, _)
FirstAppearance(rows, seen) ==
    IF rows = <<>> THEN <<>>
    ELSE IF Head(rows).customer_id \in seen
         THEN FirstAppearance(Tail(rows), seen)
         ELSE <<Head(rows).customer_id>>
              \o FirstAppearance(Tail(rows), seen \cup {Head(rows).customer_id})

\* The days on which customer c bought: one repeated transaction per period
PurchaseDays(rows, c) ==
    {rows[k].date : k \in {j \in 1..Len(rows) : rows[j].customer_id = c}}

SummaryColumns == <<"frequency", "recency", "T">>

SummaryRowFromLast(rows, c, cutoff) ==
    LET days == PurchaseDays(rows, c) IN
    << Cardinality(days) - 1, Max(days) - Min(days), cutoff - Max(days) >>

\* frequency = count - 1, recency = max - min, T = observation_period_end - min
SummaryRow(rows, c, cutoff) ==
    LET days == PurchaseDays(rows, c) IN
    << Cardinality(days) - 1, Max(days) - Min(days), cutoff - Min(days) >>

\* A data frame indexed by customer_id with the columns frequency, recency, T
summary_data_from_transaction_data(rows, cutoff) ==
    LET kept  == SelectSeq(rows, LAMBDA r : r.date <= cutoff)
        index == FirstAppearance(kept, {})
    IN  [index_name |-> "customer_id",
         index      |-> index,
         columns    |-> SummaryColumns,
         data       |-> [k \in 1..Len(index) |-> SummaryRow(kept, index[k], cutoff)]]

ColumnOf(frame, name) ==
    LET c == CHOOSE k \in 1..Len(frame.columns) : frame.columns[k] = name
    IN  [k \in 1..Len(frame.data) |-> frame.data[k][c]]

HasColumn(frame, name) == \E k \in 1..Len(frame.columns) : frame.columns[k] = name

\* summary[name] = values
WithColumn(frame, name, values) ==
    [frame EXCEPT !.columns = @ \o <<name>>,
                  !.data = [k \in 1..Len(@) |-> @[k] \o <<values[k]>>]]

ColumnMax(frame, name) ==
    LET col == ColumnOf(frame, name) IN Max({col[k] : k \in 1..Len(col)})

-----------------------------------------------------------------------------
(* The fitted model.  Coefficients and the penalizer are decimals with two  *)
(* fractional digits, held as a whole number of hundredths.                 *)

ParamNames == <<"r", "alpha", "a", "b">>
ParamValues == {v * CoefStep : v \in 0..MaxCoef}
SliderMax == 100

\* bgf.params_: a Series, the names in order with their values
Series(values) ==
    [k \in 1..Len(ParamNames) |-> [name |-> ParamNames[k], value |-> values[k]]]

BetaGeoFitter(penalizer_coef, params) ==
    [params_ |-> params, penalizer_coef |-> penalizer_coef]

\* One evaluation of bgf.conditional_expected_number_of_purchases_up_to_time
Expected(t, frequency, recency, T) ==
    [t |-> t, frequency |-> frequency, recency |-> recency, T |-> T]

make_predictions(frame, time_period) ==
    LET f == ColumnOf(frame, "frequency")
        r == ColumnOf(frame, "recency")
        T == ColumnOf(frame, "T")
    IN  [k \in 1..Len(frame.data) |-> Expected(time_period, f[k], r[k], T[k])]

-----------------------------------------------------------------------------
(* plot_frequency_recency_heatmap *)

FrequencyCap == 50
RecencyCap == 50
HeatmapHorizon == 30

PyMin(a, b) == IF b < a THEN b ELSE a

Cell(i, j, max_recency) ==
    [Recency |-> i, Frequency |-> j,
     ExpectedPurchases |-> Expected(HeatmapHorizon, j, i, max_recency)]

\* for j in range(max_frequency+1): data.append(...)
RECURSIVE InnerLoop(_, _, _, _)
InnerLoop(i, j, max_frequency, max_recency) ==
    IF j >= max_frequency + 1 THEN <<>>
    ELSE <<Cell(i, j, max_recency)>> \o InnerLoop(i, j + 1, max_frequency, max_recency)

\* for i in range(max_recency+1): ...
RECURSIVE OuterLoop(_, _, _)
OuterLoop(i, max_frequency, max_recency) ==
    IF i >= max_recency + 1 THEN <<>>
    ELSE InnerLoop(i, 0, max_frequency, max_recency)
         \o OuterLoop(i + 1, max_frequency, max_recency)

max_recency_uncapped(frame) == ColumnMax(frame, "T")

max_frequency(frame) == PyMin(ColumnMax(frame, "frequency"), FrequencyCap)
max_recency(frame) == PyMin(ColumnMax(frame, "T"), RecencyCap)

\* The list `data` the chart is drawn from
HeatmapData(frame) == OuterLoop(0, max_frequency(frame), max_recency(frame))

-----------------------------------------------------------------------------
(* Export: summary.to_csv, save_model_params, json.dumps; and the reload    *)
(* path json.loads, load_model_params.  A text is a sequence of tokens.     *)

to_csv(frame, index) ==
    IF index
    THEN [header |-> <<frame.index_name>> \o frame.columns,
          lines  |-> [k \in 1..Len(frame.data) |-> <<frame.index[k]>> \o frame.data[k]]]
    ELSE [header |-> frame.columns, lines |-> frame.data]

save_model_params(model) ==
    [params |-> model.params_, penalizer_coef |-> model.penalizer_coef]

Digit == <<"0", "1", "2", "3", "4", "5", "6", "7", "8", "9">>

RECURSIVE Digits(_)
Digits(n) == IF n < 10 THEN <<Digit[n + 1]>>
             ELSE Digits(n \div 10) \o <<Digit[(n % 10) + 1]>>

\* float.__repr__: the shortest decimal that reads back as the same float
float_repr(h) ==
    LET f == h % 100 IN
    Digits(h \div 100) \o <<".">> \o
        (IF f % 10 = 0 THEN <<Digit[(f \div 10) + 1]>>
         ELSE <<Digit[(f \div 10) + 1], Digit[(f % 10) + 1]>>)

RECURSIVE DumpMembers(_)
DumpMembers(pairs) ==
    IF pairs = <<>> THEN <<>>
    ELSE <<Head(pairs).name, ": ">> \o float_repr(Head(pairs).value)
         \o (IF Tail(pairs) = <<>> THEN <<>> ELSE <<", ">> \o DumpMembers(Tail(pairs)))

\* json.dumps({'params': {...}, 'penalizer_coef': x})
json_dumps(d) ==
    <<"{", "params", ": ", "{">> \o DumpMembers(d.params) \o <<"}", ", ">>
        \o <<"penalizer_coef", ": ">> \o float_repr(d.penalizer_coef) \o <<"}">>

IsDigit(tok) == \E d \in 1..10 : Digit[d] = tok
DigitValue(tok) == (CHOOSE d \in 1..10 : Digit[d] = tok) - 1

\* Reads digits from pos on: the number read, how many digits, the next position
RECURSIVE ParseDigits(_, _, _, _)
ParseDigits(toks, pos, acc, n) ==
    IF pos <= Len(toks) /\ IsDigit(toks[pos])
    THEN ParseDigits(toks, pos + 1, acc * 10 + DigitValue(toks[pos]), n + 1)
    ELSE [value |-> acc, digits |-> n, pos |-> pos]

\* Reads "<int>.<frac>" into hundredths
ParseFloat(toks, pos) ==
    LET whole == ParseDigits(toks, pos, 0, 0)
        frac  == ParseDigits(toks, whole.pos + 1, 0, 0)
        cents == IF frac.digits = 1 THEN frac.value * 10 ELSE frac.value
    IN  [value |-> whole.value * 100 + cents, pos |-> frac.pos]

\* Reads  name: number, name: number, ... }  from pos on
RECURSIVE ParseMembers(_, _)
ParseMembers(toks, pos) ==
    IF toks[pos] = "}" THEN [pairs |-> <<>>, pos |-> pos + 1]
    ELSE LET num  == ParseFloat(toks, pos + 2)
             rest == IF toks[num.pos] = ", "
                     THEN ParseMembers(toks, num.pos + 1)
                     ELSE ParseMembers(toks, num.pos)
         IN  [pairs |-> <<[name |-> toks[pos], value |-> num.value]>> \o rest.pairs,
              pos   |-> rest.pos]

\* json.loads of such a document: a dict of the two members
json_loads(toks) ==
    LET key1 == toks[2]
        obj  == ParseMembers(toks, 5)
        key2 == toks[obj.pos + 1]
        num  == ParseFloat(toks, obj.pos + 3)
    IN  [k \in {key1, key2} |-> IF k = key1 THEN obj.pairs ELSE num.value]

load_model_params_default(params_dict) == BetaGeoFitter(0, params_dict["params"])

\* BetaGeoFitter(penalizer_coef=params_dict['penalizer_coef']); params_ = pd.Series(...)
load_model_params(params_dict) ==
    BetaGeoFitter(params_dict["penalizer_coef"], params_dict["params"])

-----------------------------------------------------------------------------
(* main: one run of the script *)

Title == Elem("title", "Customer Lifetime Value Prediction with BG/NBD Model")
Info == Elem("info", "Please upload a sales history dataset to proceed.")
SalesPreview ==
    <<Elem("write", "Sales Data Preview:"), Elem("dataframe", "sales_data.head()")>>
SummaryPreview ==
    <<Elem("write", "Transformed Data Preview:"), Elem("dataframe", "summary.head()")>>
Success == Elem("success", "BG/NBD model trained successfully!")
PredictionsTable ==
    <<Elem("write", "Predictions:"), Elem("dataframe", "summary[...]")>>
HeatmapElems ==
    <<Elem("subheader", "Model Visualizations"),
      Elem("altair_chart", "Frequency-Recency Matrix"),
      Elem("write", "Frequency-Recency Matrix: Darker colors indicate higher expected future purchases in the next 30 days.")>>
ValidationElems ==
    <<Elem("subheader", "Model Validation"),
      Elem("pyplot", "plot_period_transactions"),
      Elem("write", "This plot shows how well the model fits the data, comparing actual vs. predicted transactions.")>>
DownloadButton ==
    Elem("download_button", "Download Predictions and Model Parameters as ZIP")

PenalizerChoices == {0, 10}
HorizonChoices == {1, 60}

\* What the optimizer may return, or Raise when the fit fails
Raise == <<>>
FitOptima == {Series([k \in 1..Len(ParamNames) |-> v]) : v \in {CoefStep, MaxCoef * CoefStep}}
FitOutcomes(frame) == IF frame.data = <<>> THEN {Raise} ELSE FitOptima \cup {Raise}

\* The summarization of an empty table, whose cutoff is NaT, either raises
\* inside the library or yields an empty frame
SummarizeOutcomes(rows) == IF rows = <<>> THEN {"ok", "raise"} ELSE {"ok"}

Escape(name) ==
    /\ pc' = "escaped"
    /\ exception' = Some(name)

AfterIngestAlways(table) == "summarize"

\* if sales_data is not None: ... (no else branch)
AfterIngest(table) == IF table # None THEN "summarize" ELSE "done"

ZipEntry(name, content) == [name |-> name, content |-> content]

\* else: st.info(...)
NoFile ==
    /\ pc = "start"
    /\ uploaded_file = None
    /\ display' = <<Title, Info>>
    /\ pc' = "done"
    /\ UNCHANGED <<uploaded_file, sales_data, summary, bgf, chart, archive,
                   exception, stages, reloaded>>

\* sales_data = load_and_preprocess_data(uploaded_file), then the preview
Ingest ==
    /\ pc = "start"
    /\ uploaded_file # None
    /\ LET res == load_and_preprocess_data(Val(uploaded_file)) IN
        /\ sales_data' = res.table
        /\ display' = <<Title>> \o res.errors
                         \o (IF res.table # None THEN SalesPreview ELSE <<>>)
        /\ pc' = AfterIngest(res.table)
    /\ stages' = Append(stages, "ingestion")
    /\ UNCHANGED <<uploaded_file, summary, bgf, chart, archive, exception, reloaded>>

\* summary = summary_data_from_transaction_data(sales_data, ..., sales_data['date'].max())
Summarize ==
    /\ pc = "summarize"
    /\ stages' = Append(stages, "summarization")
    /\ IF sales_data = None
       THEN Escape("TypeError") /\ UNCHANGED <<summary, display>>
       ELSE LET rows == Val(sales_data) IN
            \E outcome \in SummarizeOutcomes(rows) :
                IF outcome = "raise"
                THEN Escape("AttributeError") /\ UNCHANGED <<summary, display>>
                ELSE /\ summary' = Some(summary_data_from_transaction_data(
                                            rows, observation_period_end(rows)))
                     /\ display' = display \o SummaryPreview
                     /\ pc' = "fit"
                     /\ UNCHANGED exception
    /\ UNCHANGED <<uploaded_file, sales_data, bgf, chart, archive, reloaded>>

\* penalizer_coef = st.slider(...); bgf = train_model(summary, penalizer_coef)
TrainModel ==
    /\ pc = "fit"
    /\ stages' = Append(stages, "fit")
    /\ \E penalizer_coef \in PenalizerChoices, fitted \in FitOutcomes(Val(summary)) :
            IF fitted = Raise
            THEN Escape("ConvergenceError") /\ UNCHANGED <<bgf, display>>
            ELSE /\ bgf' = Some(BetaGeoFitter(penalizer_coef, fitted))
                 /\ display' = Append(display, Success)
                 /\ pc' = "predict"
                 /\ UNCHANGED exception
    /\ UNCHANGED <<uploaded_file, sales_data, summary, chart, archive, reloaded>>

\* time_period = st.slider(...); summary['predicted_transactions'] = make_predictions(...)
Predict ==
    /\ pc = "predict"
    /\ stages' = Append(stages, "prediction")
    /\ \E time_period \in HorizonChoices :
            summary' = Some(WithColumn(Val(summary), "predicted_transactions",
                                       make_predictions(Val(summary), time_period)))
    /\ display' = display \o PredictionsTable
    /\ pc' = "heatmap"
    /\ UNCHANGED <<uploaded_file, sales_data, bgf, chart, archive, exception, reloaded>>

PlotHeatmap ==
    /\ pc = "heatmap"
    /\ stages' = Append(stages, "heatmap")
    /\ chart' = Some(HeatmapData(Val(summary)))
    /\ display' = display \o HeatmapElems
    /\ pc' = "validate"
    /\ UNCHANGED <<uploaded_file, sales_data, summary, bgf, archive, exception, reloaded>>

PlotValidation ==
    /\ pc = "validate"
    /\ stages' = Append(stages, "validation")
    /\ display' = display \o ValidationElems
    /\ pc' = "export"
    /\ UNCHANGED <<uploaded_file, sales_data, summary, bgf, chart, archive,
                   exception, reloaded>>

\* The zip archive and the download button
Export ==
    /\ pc = "export"
    /\ stages' = Append(stages, "export")
    /\ archive' = Some(<<ZipEntry("predictions.csv", to_csv(Val(summary), FALSE)),
                         ZipEntry("model_params.json",
                                  json_dumps(save_model_params(Val(bgf))))>>)
    /\ display' = Append(display, DownloadButton)
    /\ pc' = "done"
    /\ UNCHANGED <<uploaded_file, sales_data, summary, bgf, chart, exception, reloaded>>

Init ==
    /\ uploaded_file \in {None} \cup {Some(f) : f \in Files}
    /\ pc = "start"
    /\ sales_data = None
    /\ display = <<>>
    /\ summary = None
    /\ bgf = None
    /\ chart = None
    /\ archive = None
    /\ exception = None
    /\ stages = <<>>
    /\ reloaded = None

\* Reading the exported document back: json.loads, then load_model_params
Reimport ==
    /\ pc = "done"
    /\ archive # None
    /\ reloaded' = Some(load_model_params(json_loads(Val(archive)[2].content)))
    /\ pc' = "reloaded"
    /\ UNCHANGED <<uploaded_file, sales_data, display, summary, bgf, chart, archive,
                   exception, stages>>

Next ==
    \/ NoFile
    \/ Ingest
    \/ Summarize
    \/ TrainModel
    \/ Predict
    \/ PlotHeatmap
    \/ PlotValidation
    \/ Export

Spec == Init /\ [][Next]_vars

-----------------------------------------------------------------------------
(* The run of main on a given file, up to a given stage *)

SalesOf(file) == Val(load_and_preprocess_data(file).table)
SummaryOf(file) ==
    summary_data_from_transaction_data(SalesOf(file), observation_period_end(SalesOf(file)))
PredictedOf(file, time_period) ==
    WithColumn(SummaryOf(file), "predicted_transactions",
               make_predictions(SummaryOf(file), time_period))
DisplayAtHeatmap == <<Title>> \o SalesPreview \o SummaryPreview \o <<Success>> \o PredictionsTable

(* The heat map on summaries whose maxima lie on both sides of the caps *)

HeatValues == (0..HeatLow) \cup (HeatHighFrom..HeatHigh)

InitHeatmap ==
    /\ \E f \in HeatValues, t \in HeatValues :
            /\ f <= t
            /\ uploaded_file = Some(HeatFile(f, t))
            /\ sales_data = Some(SalesOf(HeatFile(f, t)))
            /\ summary = Some(PredictedOf(HeatFile(f, t), 60))
    /\ pc = "heatmap"
    /\ display = DisplayAtHeatmap
    /\ bgf = Some(BetaGeoFitter(0, Series([k \in 1..Len(ParamNames) |-> CoefStep])))
    /\ chart = None
    /\ archive = None
    /\ exception = None
    /\ stages = <<"ingestion", "summarization", "fit", "prediction">>
    /\ reloaded = None

NextHeatmap == PlotHeatmap

SpecHeatmap == InitHeatmap /\ [][NextHeatmap]_vars

(* The export of every fitted model of the bounds, and its reload *)

Models ==
    {BetaGeoFitter(p, Series(v)) :
        p \in 0..SliderMax, v \in [1..Len(ParamNames) -> ParamValues]}

InitRoundTrip ==
    /\ bgf \in {Some(m) : m \in Models}
    /\ uploaded_file = Some(ScenarioFile)
    /\ sales_data = Some(SalesOf(ScenarioFile))
    /\ summary = Some(PredictedOf(ScenarioFile, 60))
    /\ pc = "export"
    /\ display = DisplayAtHeatmap \o HeatmapElems \o ValidationElems
    /\ chart = Some(HeatmapData(PredictedOf(ScenarioFile, 60)))
    /\ archive = None
    /\ exception = None
    /\ stages = <<"ingestion", "summarization", "fit", "prediction", "heatmap", "validation">>
    /\ reloaded = None

NextRoundTrip ==
    \/ Export
    \/ Reimport

SpecRoundTrip == InitRoundTrip /\ [][NextRoundTrip]_vars

-----------------------------------------------------------------------------
(* Properties *)

Ingested == uploaded_file # None /\ stages # <<>>
TheFile == Val(uploaded_file)
MissingColumns(file) ==
    {required_columns[k] : k \in {j \in 1..Len(required_columns) :
                                    required_columns[j] \notin file.columns}}
IsError(e) == e.kind = "error"
ErrorsShown == SelectSeq(display, IsError)
NamesOf(e) == {e.names[k] : k \in 1..Len(e.names)}
Shown(e) == \E k \in 1..Len(display) : display[k] = e
Performed(stage) == \E k \in 1..Len(stages) : stages[k] = stage

SchemaCase == Ingested /\ TheFile.readable /\ MissingColumns(TheFile) # {}

HasBadDate(file) == \E k \in 1..Len(file.rows) : file.rows[k].date.kind # "iso"
HasGoodDate(file) == \E k \in 1..Len(file.rows) : file.rows[k].date.kind = "iso"
DateCase ==
    Ingested /\ TheFile.readable /\ MissingColumns(TheFile) = {} /\ HasBadDate(TheFile)
DateParseError ==
    ErrorElem("Error loading data: Some date values couldn't be parsed. Please ensure all dates are in a valid format.",
              <<>>)

\* C2: with both required columns present, one date that fails to parse (or is
\* missing) makes ingestion refuse the whole dataset: the date-parse failure is
\* reported and no table is returned, not even of the rows that did parse.
C2_BadDateRejectsAll ==
    DateCase =>
        /\ sales_data = None
        /\ ErrorsShown = <<DateParseError>>
        /\ pc = "done"
        /\ summary = None

C2_Witness ==
    /\ DateCase
    /\ HasGoodDate(TheFile)
    /\ \E k \in 1..Len(TheFile.rows) : TheFile.rows[k].date = NotADate
    /\ sales_data = None
    /\ Shown(DateParseError)

ZeroRowsCase ==
    /\ Ingested
    /\ TheFile.readable
    /\ MissingColumns(TheFile) = {}
    /\ ~HasBadDate(TheFile)
    /\ \A k \in 1..Len(TheFile.rows) : TheFile.rows[k].customer_id = NA

\* C3: when no row remains after cleanup, the run reports a failure and does not
\* go on to summarization, fit or export with the empty table.
C3_EmptyDatasetFails ==
    ZeroRowsCase =>
        /\ sales_data = None
        /\ ErrorsShown # <<>>
        /\ ~Performed("summarization")

\* C4: no run ends with an exception escaping main.
C4_NoEscape == pc # "escaped" /\ exception = None

FrameRows(frame) == {SubSeq(frame.data[k], 1, 3) : k \in 1..Len(frame.data)}

\* C5: every row of the summary has frequency >= 0, recency >= 0, T >= 0 and
\* recency <= T.
C5_SummaryRanges ==
    summary # None =>
        \A row \in FrameRows(Val(summary)) :
            row[1] >= 0 /\ row[2] >= 0 /\ row[3] >= 0 /\ row[2] <= row[3]

C5_Witness ==
    /\ summary # None
    /\ \E row \in FrameRows(Val(summary)) : row[1] >= 1 /\ row[2] >= 1 /\ row[2] = row[3]
    /\ \E row \in FrameRows(Val(summary)) : row[1] = 0 /\ row[3] >= 1

TransactionsOf(c) == {k \in 1..Len(Val(sales_data)) : Val(sales_data)[k].customer_id = c}
RowOf(frame, c) ==
    LET k == CHOOSE j \in 1..Len(frame.index) : frame.index[j] = c
    IN  SubSeq(frame.data[k], 1, 3)
InIndex(frame, c) == \E j \in 1..Len(frame.index) : frame.index[j] = c

\* C6: a customer with exactly one transaction gets the summary row frequency 0,
\* recency 0 and T = the latest date of the whole log minus the date of that
\* transaction.
C6_SingleTransaction ==
    summary # None =>
        \A c \in Customers :
            Cardinality(TransactionsOf(c)) = 1 =>
                LET k == CHOOSE j \in TransactionsOf(c) : TRUE IN
                /\ InIndex(Val(summary), c)
                /\ RowOf(Val(summary), c)
                      = <<0, 0, Max(Dates(Val(sales_data))) - Val(sales_data)[k].date>>

\* The scenario of the log [(C1, 01-01), (C1, 02-01), (C2, 01-15)]: C2 gets 0, 0, 17
C6_Witness ==
    /\ uploaded_file = Some(ScenarioFile)
    /\ summary # None
    /\ RowOf(Val(summary), "C2") = <<0, 0, 17>>
    /\ RowOf(Val(summary), "C1") = <<1, 31, 31>>

\* C7: loading the exported and re-read model_params.json gives a model with the
\* coefficient names and values and the penalizer_coef of the exported model.
C7_RoundTrip ==
    reloaded # None =>
        /\ Val(reloaded).params_ = Val(bgf).params_
        /\ Val(reloaded).penalizer_coef = Val(bgf).penalizer_coef

C7_Witness ==
    /\ reloaded # None
    /\ Val(bgf).penalizer_coef = 10
    /\ Val(reloaded).penalizer_coef = 10
    /\ Val(archive)[2].content[Len(Val(archive)[2].content) - 3] = "0"
    /\ Val(archive)[2].content[Len(Val(archive)[2].content) - 1] = "1"
    /\ \E k \in 1..Len(ParamNames) : Val(bgf).params_[k].value % 10 # 0

HeaderHas(csv, name) == \E k \in 1..Len(csv.header) : csv.header[k] = name

\* C8: the archive holds exactly predictions.csv and model_params.json, and
\* predictions.csv has one row per customer with the columns customer_id,
\* frequency, recency, T and predicted_transactions.
C8_ArchiveContents ==
    archive # None =>
        /\ Len(Val(archive)) = 2
        /\ Val(archive)[1].name = "predictions.csv"
        /\ Val(archive)[2].name = "model_params.json"
        /\ Len(Val(archive)[1].content.lines) = Len(Val(summary).index)
        /\ \A name \in {"customer_id", "frequency", "recency", "T",
                          "predicted_transactions"} :
                HeaderHas(Val(archive)[1].content, name)

\* C9: with R = min(max T, 50) and F = min(max frequency, 50) the heat map
\* evaluates the model once for each pair (i, j), 0 <= i <= R, 0 <= j <= F, always
\* for 30 days and with T = R; so recency <= T in every cell and no axis passes 50.
C9_HeatmapGrid ==
    chart # None =>
        LET data == Val(chart)
            maxT == ColumnMax(Val(summary), "T")
            maxF == ColumnMax(Val(summary), "frequency")
            R == IF maxT < 50 THEN maxT ELSE 50
            F == IF maxF < 50 THEN maxF ELSE 50
        IN  /\ Len(data) = (R + 1) * (F + 1)
            /\ Cardinality({<<data[k].Recency, data[k].Frequency>> : k \in 1..Len(data)})
                 = Len(data)
            /\ \A k \in 1..Len(data) :
                   /\ data[k].Recency \in 0..R
                   /\ data[k].Frequency \in 0..F
                   /\ data[k].ExpectedPurchases
                        = Expected(30, data[k].Frequency, data[k].Recency, R)
                   /\ data[k].Recency <= data[k].ExpectedPurchases.T
                   /\ data[k].Recency <= 50 /\ data[k].Frequency <= 50

C9_Witness ==
    /\ chart # None
    /\ ColumnMax(Val(summary), "T") > 50
    /\ ColumnMax(Val(summary), "frequency") > 50
    /\ Len(Val(chart)) = 51 * 51

StageOrder ==
    <<"ingestion", "summarization", "fit", "prediction", "heatmap", "validation", "export">>

\* C10: the stages of a run occur only in the order ingestion, summarization,
\* fit, prediction, reporting, export; the download is offered only when ingestion
\* returned a table and every earlier stage completed; and with no file, or a
\* failed ingestion, nothing after ingestion is performed.
C10_StageOrder ==
    /\ Len(stages) <= Len(StageOrder)
    /\ stages = SubSeq(StageOrder, 1, Len(stages))
    /\ Shown(DownloadButton) =>
          sales_data # None /\ stages = StageOrder /\ exception = None
    /\ (uploaded_file = None \/ (stages # <<>> /\ sales_data = None)) =>
          /\ Len(stages) <= 1
          /\ summary = None /\ bgf = None /\ chart = None /\ archive = None
          /\ ~Shown(DownloadButton)

C10_Witness ==
    /\ pc = "done"
    /\ Shown(DownloadButton)
    /\ stages = StageOrder
    /\ archive # None

====
